---- MODULE Spec2Model ----
(***************************************************************************)
(* Twen: a node-graph audio synthesiser driven by a small DSL.             *)
(*                                                                         *)
(*   node.rs    NodeGraph: the slot arena (nodes, dead, outputs, store,    *)
(*              output_node), create_*, delete_node, sample                *)
(*   parser.rs  lex, Parser (recursive descent), GraphLoader (visit, load) *)
(*   main.rs    the driver: reload on file events, sample batches          *)
(*                                                                         *)
(* Ids and positions are 0-based as in the source; TLA+ sequences are      *)
(* 1-based, so slot id lives at index id + 1.  f32 values are modelled by  *)
(* integers (the arithmetic used here, +, -, * on small integers, is exact *)
(* in f32); a phase is counted in steps of phase_step, and the output of a *)
(* Saw node is a ratio of integers.  Option<usize> is a sequence of length *)
(* at most one.  A String is a sequence of one-character strings.          *)
(***************************************************************************)
EXTENDS Integers, Sequences, FiniteSets, TLC

VARIABLES
    \* ---- NodeGraph (node.rs 73-81)
    nodes,          \* Vec<Node>
    dead,           \* Vec<usize>: the free list
    output_node,    \* Option<usize>
    outputs,        \* Vec<f32>
    store,          \* Vec<f32>
    panicked,       \* the thread unwound out of a NodeGraph call
    \* ---- observation of the calls made on the graph
    last,           \* the most recent call: what it was and what it returned
    reads,          \* last sample(): per slot written, the input values it resolved
    writes,         \* last sample(): the slot ids written, in order
    lastOut,        \* outputs as the most recent completed sample() left them
    lastCreated,    \* the most recent create_* (node) call: the id it returned
                    \* and whether that id came off the free list
    lastOutputId,   \* id returned by the most recent create_output call
    ncalls,         \* number of calls made on the graph
    \* ---- lex (parser.rs 89-148)
    data,           \* Reader.data: the source text
    sr_pos,         \* Reader.pos
    lex_tokens,     \* the local Vec<Token> of lex
    lexPc,          \* "loop", "returned", "panic" (number.parse failed) or
                    \* "exhausted" (the token vector outgrew memory)
    \* ---- Parser (parser.rs 159-271)
    tokens,         \* Parser.tokens
    pos,            \* Parser.pos
    prog,           \* the local Vec<Expr> of parse
    parsePc,        \* "loop", "returned" or "panic"
    parseErr,       \* the panic parse unwound with
    \* ---- GraphLoader (parser.rs 301-432); load builds into the graph above
    variables,      \* HashMap<String, Value>
    visited,        \* statements of the Program visited so far
    loadPc,         \* "parse", "visit", "returned" or "panic"
    loadErr,        \* the panic load unwound with
    \* ---- main (main.rs); its graph is the graph above
    file,           \* Option<text>: what synth.twg holds, None when removed
    watch,          \* the watcher's channel: pending file events
    mainPc,         \* "start", "init_fill", "events", "poll", "recv", "fill",
                    \* "quit" (left the loop) or "panic"
    mainErr,        \* the panic main ended with
    gen,            \* number of graphs main has installed
    loaded,         \* the text of the most recent load and the number of
                    \* samples taken since (counted up to MaxTaken)
    samples,        \* the batch being filled
    fill_i,         \* samples of the batch filled so far
    toCallback,     \* channel audioSender -> AudioOutput.rx
    toMain,         \* channel AudioOutput.cs -> audioReceiver
    cbPc,           \* the audio thread: "idle", or "recv" inside callback
    device,         \* the buffer last copied to the device
    edits           \* number of changes made to the file

graphData == <<nodes, dead, output_node, outputs, store>>
graphVars == <<graphData, panicked>>
obsVars   == <<last, reads, writes, lastOut, lastCreated, lastOutputId, ncalls>>
lexVars   == <<data, sr_pos, lex_tokens, lexPc>>
loadVars  == <<tokens, pos, prog, parsePc, parseErr, variables, visited,
               loadPc, loadErr>>
mainVars  == <<file, watch, mainPc, mainErr, gen, loaded, samples, fill_i,
               toCallback, toMain, cbPc, device, edits>>
vars      == <<graphVars, obsVars, lexVars, loadVars, mainVars>>
\* What the steps of one component leave alone.  load and main work on the
\* graph, so their steps say themselves what they do to graphData.
notGraph  == <<lexVars, loadVars, mainVars>>
notLex    == <<graphVars, obsVars, loadVars, mainVars>>
notLoad   == <<panicked, obsVars, lexVars, mainVars>>
notMain   == <<panicked, obsVars, lexVars, loadVars>>

\* ------------------------------------------------------------------ bounds
MaxCalls == 5       \* calls made on one NodeGraph per behaviour
MaxInput == 3       \* characters of source text given to lex
MaxStream == 6      \* tokens before the end sentinel in a stream given to parse
MaxStmts == 2       \* statements of a Program given to visit
MaxEdits == 2       \* changes made to synth.twg while main runs
BatchLen == 2       \* samples per batch (1024 in main.rs)
MaxTaken == 5       \* samples counted since the most recent load

\* ------------------------------------------------------------------ Input
Value(v)     == [t |-> "Value", v |-> v]
NodeOut(id)  == [t |-> "Node",  v |-> id]
StoreVal(id) == [t |-> "Store", v |-> id]

\* The operands the calls are made with.  Node ids 0 and 1 give self,
\* backward and forward references, and dangling ones while the arena is
\* shorter; the store id is 0 (dangling while no store slot exists).
NodeInput  == {NodeOut(0), NodeOut(1)}
StoreInput == {StoreVal(0)}
ConstInput == {Value(1)}

\* Input::sample indexes ctx.outputs / ctx.store: out of range is a panic.
InputInBounds(in, outs, st) ==
    CASE in.t = "Value" -> TRUE
      [] in.t = "Node"  -> in.v < Len(outs)
      [] in.t = "Store" -> in.v < Len(st)

\* (variant) Node inputs read the outputs as they were when sample() was
\* entered, not as the earlier iterations of this call left them.
InputSample_snapshot(in, outs, st) ==
    CASE in.t = "Value" -> in.v
      [] in.t = "Node"  -> outputs[in.v + 1]
      [] in.t = "Store" -> st[in.v + 1]

InputSample(in, outs, st) ==
    CASE in.t = "Value" -> in.v
      [] in.t = "Node"  -> outs[in.v + 1]
      [] in.t = "Store" -> st[in.v + 1]

\* ------------------------------------------------------------------ Phase
\* Phase (node.rs 4-24).  phase_step is 2*PI / sample_rate and period is
\* 2*PI: a phase is counted here in steps of phase_step, so the period is
\* sample_rate steps and advance(freq) adds freq steps.  The radians the
\* arms of sample compute with are steps * 2*PI / sample_rate.
sample_rate == 44100

\* n / d (d > 0) as a ratio of integers in lowest terms
Abs(x) == IF x < 0 THEN -x ELSE x

RECURSIVE GCD(_, _)
GCD(a, b) == IF b = 0 THEN a ELSE GCD(b, a % b)

Ratio(n, d) == [n |-> n \div GCD(Abs(n), d), d |-> d \div GCD(Abs(n), d)]

\* std::f32::consts::PI, to seven digits
PI == Ratio(355, 113)

\* The f32 `%` of Rust: the remainder has the sign of the dividend.
Rem(a, b) == IF a >= 0 THEN a % b ELSE -((-a) % b)

\* Phase::advance: the phase it leaves and returns
Phase_advance(phase, freq) == Rem(phase + freq, sample_rate)

\* phase > x, for a phase in steps and x = xn / xd in radians:
\* steps * 2*PI / sample_rate > xn / xd
PhaseGreater(steps, xn, xd) ==
    steps * 2 * PI.n * xd > xn * PI.d * sample_rate

\* ------------------------------------------------------------------ Node
\* A Node: its kind, its inputs a and b, the store id of a Writer, the f32
\* parameters of Map and Mix, and the phase of an oscillator's Phase
\* (Phase::new starts it at 0.0).
NoInput == Value(0)
Node(kind, a, b, sid, p) ==
    [kind |-> kind, a |-> a, b |-> b, sid |-> sid, p |-> p, phase |-> 0]

Null              == Node("Null",     NoInput, NoInput, 0, << >>)
Saw(freq, amp)      == Node("Saw",      freq, amp, 0, << >>)
Sine(freq, amp)     == Node("Sine",     freq, amp, 0, << >>)
Square(freq, amp)   == Node("Square",   freq, amp, 0, << >>)
Triangle(freq, amp) == Node("Triangle", freq, amp, 0, << >>)
LFO(freq)           == Node("LFO",      freq, NoInput, 0, << >>)
Map(in, from_min, from_max, to_min, to_max) ==
    Node("Map", in, NoInput, 0, <<from_min, from_max, to_min, to_max>>)
Mix(a, b, f)      == Node("Mix",    a, b, 0, <<f>>)
Add(a, b)         == Node("Add",    a, b, 0, << >>)
Sub(a, b)         == Node("Sub",    a, b, 0, << >>)
Mul(a, b)         == Node("Mul",    a, b, 0, << >>)
Writer(s, v)      == Node("Writer", v, NoInput, s, << >>)
Output(a)         == Node("Output", a, NoInput, 0, << >>)

None    == << >>
Some(x) == << x >>

\* ------------------------------------------------------------------ NodeGraph
\* A NodeGraph value; the operations below are functions of it.
Graph(n, d, on, o, s) ==
    [nodes |-> n, dead |-> d, output_node |-> on, outputs |-> o, store |-> s]

\* NodeGraph::new
NewGraph == Graph(<< >>, << >>, None, << >>, << >>)

\* The graph the variables hold.
G == Graph(nodes, dead, output_node, outputs, store)

\* add_node: push a fresh slot when the free list is empty, else pop the
\* most recently freed id and overwrite that slot (outputs is not touched).
\* The result is the graph and the id returned.
\* (variant) add_node that pushes the node and leaves outputs as it is.
add_node_no_output(g, n) ==
    IF g.dead = << >>
    THEN [g  |-> [g EXCEPT !.nodes = Append(g.nodes, n)],
          id |-> Len(g.nodes)]
    ELSE LET id == g.dead[Len(g.dead)]
         IN  [g  |-> [g EXCEPT !.nodes[id + 1] = n,
                               !.dead = SubSeq(g.dead, 1, Len(g.dead) - 1)],
              id |-> id]

\* (variant) add_node that reuses the freed id and leaves it on the free list.
add_node_keeps_dead(g, n) ==
    IF g.dead = << >>
    THEN [g  |-> [g EXCEPT !.nodes = Append(g.nodes, n),
                           !.outputs = Append(g.outputs, 0)],
          id |-> Len(g.nodes)]
    ELSE LET id == g.dead[Len(g.dead)]
         IN  [g  |-> [g EXCEPT !.nodes[id + 1] = n],
              id |-> id]

\* (variant) add_node that always pushes a fresh slot.
add_node_always_push(g, n) ==
    [g  |-> [g EXCEPT !.nodes = Append(g.nodes, n),
                      !.outputs = Append(g.outputs, 0)],
     id |-> Len(g.nodes)]

add_node(g, n) ==
    IF g.dead = << >>
    THEN [g  |-> [g EXCEPT !.nodes = Append(g.nodes, n),
                           !.outputs = Append(g.outputs, 0)],
          id |-> Len(g.nodes)]
    ELSE LET id == g.dead[Len(g.dead)]
         IN  [g  |-> [g EXCEPT !.nodes[id + 1] = n,
                               !.dead = SubSeq(g.dead, 1, Len(g.dead) - 1)],
              id |-> id]

create_output_in(g, from) ==
    LET r == add_node(g, Output(from))
    IN  [g |-> [r.g EXCEPT !.output_node = Some(r.id)], id |-> r.id]

create_value_store_in(g) ==
    [g |-> [g EXCEPT !.store = Append(g.store, 0)], id |-> Len(g.store)]

InDead(g, id) == \E i \in 1..Len(g.dead) : g.dead[i] = id

\* delete_node(id): Err when the id is queued dead; nodes[id] panics when
\* the id is out of range; else the slot is nulled and the id queued.
\* (variant) delete_node that removes the slot: the ids above it shift down.
delete_node_in_remove(g, id) ==
    IF InDead(g, id)
    THEN [ret |-> "Err", g |-> g]
    ELSE IF id >= Len(g.nodes)
    THEN [ret |-> "panic", g |-> g]
    ELSE [ret |-> "Ok",
          g   |-> [g EXCEPT !.nodes = SubSeq(@, 1, id) \o
                                      SubSeq(@, id + 2, Len(@)),
                            !.dead = Append(g.dead, id)]]

\* (variant) delete_node without the test of the free list.
delete_node_in_nocheck(g, id) ==
    IF id >= Len(g.nodes)
    THEN [ret |-> "panic", g |-> g]
    ELSE [ret |-> "Ok",
          g   |-> [g EXCEPT !.nodes[id + 1] = Null,
                            !.dead = Append(g.dead, id)]]

delete_node_in(g, id) ==
    IF InDead(g, id)
    THEN [ret |-> "Err", g |-> g]
    ELSE IF id >= Len(g.nodes)
    THEN [ret |-> "panic", g |-> g]
    ELSE [ret |-> "Ok",
          g   |-> [g EXCEPT !.nodes[id + 1] = Null,
                            !.dead = Append(g.dead, id)]]

\* ---- sample (node.rs 183-238)
\* The inputs a node's arm resolves, in the order it resolves them.
NodeInputs(n) ==
    CASE n.kind \in {"Add", "Sub", "Mul", "Mix"}   -> <<n.a, n.b>>
      [] n.kind \in {"Sine", "Square", "Saw"}      -> <<n.a, n.b>>
      [] n.kind = "Triangle"                       -> <<n.b, n.a>>
      [] n.kind \in {"Output", "Writer", "LFO", "Map"} -> <<n.a>>
      [] n.kind = "Null"                           -> << >>

\* The nodes that hold a Phase, and the phase p.advance(freq.sample(ctx))
\* leaves in node n (the frequency is the first input but for Triangle,
\* which resolves its amplitude first).
Oscillators == {"Sine", "Square", "Saw", "Triangle", "LFO"}
Advanced(n, vs) ==
    IF n.kind \in Oscillators
    THEN [n EXCEPT !.phase = Phase_advance(@, IF n.kind = "Triangle"
                                              THEN vs[2] ELSE vs[1])]
    ELSE n

\* The arm's value from the resolved inputs vs, for the node n as advance
\* left it; the `_ => 0.0` arm is the Null slot's.  The value of Saw is not
\* an integer: it is the ratio ((phase * 2 - 1) * amp), with phase in
\* radians.  The arms with sin() and the arms of Triangle and Map are not
\* computed: the graphs sampled here hold none of them.
NodeValue(n, vs) ==
    CASE n.kind = "Square" ->
             (IF PhaseGreater(n.phase, 1, 2) THEN 1 ELSE -1) * vs[2]
      [] n.kind = "Saw"    ->
             Ratio((n.phase * 2 * 2 * PI.n - PI.d * sample_rate) * vs[2],
                   PI.d * sample_rate)
      [] n.kind = "Add"    -> vs[1] + vs[2]
      [] n.kind = "Sub"    -> vs[1] - vs[2]
      [] n.kind = "Mul"    -> vs[1] * vs[2]
      [] n.kind = "Mix"    -> (1 - n.p[1]) * vs[1] + vs[2] * n.p[1]
      [] n.kind = "Output" -> vs[1]
      [] n.kind = "Writer" -> vs[1]
      [] n.kind = "Null"   -> 0

\* One iteration of the loop, for slot id, on the nodes, the outputs and
\* the store as the earlier iterations of this call left them (acc).  An
\* index out of range unwinds: the call is over and the graph is lost with
\* the thread.
\* (variant) a Writer arm that returns its value and leaves the store alone.
SampleSlot_no_store(ns, id, acc) ==
    LET n   == acc.nodes[id + 1]
        ins == NodeInputs(n)
    IN  IF \E i \in 1..Len(ins) : ~InputInBounds(ins[i], acc.outputs, acc.store)
        THEN [acc EXCEPT !.ok = FALSE]
        ELSE LET vs == [i \in 1..Len(ins) |->
                            InputSample(ins[i], acc.outputs, acc.store)]
                 m  == Advanced(n, vs)
                 s  == NodeValue(m, vs)
             IN  IF n.kind = "Writer" /\ n.sid >= Len(acc.store)
                 THEN [acc EXCEPT !.ok = FALSE]
                 ELSE [nodes   |-> [acc.nodes EXCEPT ![id + 1] = m],
                       outputs |-> [acc.outputs EXCEPT ![id + 1] = s],
                       store   |-> acc.store,
                       reads   |-> Append(acc.reads, vs),
                       writes  |-> Append(acc.writes, id),
                       ok      |-> TRUE]

SampleSlot(ns, id, acc) ==
    LET n   == acc.nodes[id + 1]
        ins == NodeInputs(n)
    IN  IF \E i \in 1..Len(ins) : ~InputInBounds(ins[i], acc.outputs, acc.store)
        THEN [acc EXCEPT !.ok = FALSE]
        ELSE LET vs == [i \in 1..Len(ins) |->
                            InputSample(ins[i], acc.outputs, acc.store)]
                 m  == Advanced(n, vs)
                 s  == NodeValue(m, vs)
             IN  IF n.kind = "Writer" /\ n.sid >= Len(acc.store)
                 THEN [acc EXCEPT !.ok = FALSE]
                 ELSE [nodes   |-> [acc.nodes EXCEPT ![id + 1] = m],
                       outputs |-> [acc.outputs EXCEPT ![id + 1] = s],
                       store   |-> IF n.kind = "Writer"
                                   THEN [acc.store EXCEPT ![n.sid + 1] = s]
                                   ELSE acc.store,
                       reads   |-> Append(acc.reads, vs),
                       writes  |-> Append(acc.writes, id),
                       ok      |-> TRUE]

\* for (id, n) in self.nodes.iter_mut().enumerate()
RECURSIVE SampleLoop(_, _, _)
SampleLoop(ns, id, acc) ==
    IF id >= Len(ns) \/ ~acc.ok
    THEN acc
    ELSE SampleLoop(ns, id + 1, SampleSlot(ns, id, acc))

\* The value sample() returns from the buffers the loop left (node.rs 232-237).
\* (variant) sample() that ignores the designated output node.
SampleResult_no_output(g, outs) ==
    IF g.nodes # << >> THEN outs[Len(g.nodes)] ELSE 0

SampleResult(g, outs) ==
    IF g.nodes # << >>
    THEN LET out_node == IF g.output_node # None
                         THEN g.output_node[1]
                         ELSE Len(g.nodes) - 1
         IN  outs[out_node + 1]
    ELSE 0

\* sample(): the graph it leaves, the value it returns, and what it did.
sample_in(g) ==
    LET r == SampleLoop(g.nodes, 0,
                        [nodes |-> g.nodes, outputs |-> g.outputs,
                         store |-> g.store,
                         reads |-> << >>, writes |-> << >>, ok |-> TRUE])
    IN  [g      |-> [g EXCEPT !.nodes = r.nodes, !.outputs = r.outputs,
                              !.store = r.store],
         ok     |-> r.ok,
         val    |-> IF r.ok THEN SampleResult(g, r.outputs) ELSE 0,
         reads  |-> r.reads,
         writes |-> r.writes]

\* ---- the calls, as steps on the graph the variables hold
\* Every call is counted; a behaviour makes at most MaxCalls of them.
CanCall == ~panicked /\ ncalls < MaxCalls

\* A call as observed: ret is "Ok", "Err" or "panic".
Observed(op, id, ret, val, reused) ==
    [op |-> op, id |-> id, ret |-> ret, val |-> val, reused |-> reused]

SetGraph(g) ==
    /\ nodes' = g.nodes
    /\ dead' = g.dead
    /\ output_node' = g.output_node
    /\ outputs' = g.outputs
    /\ store' = g.store

\* A create_* call that goes through add_node and returned r.id.
Created(op, r) ==
    /\ CanCall
    /\ ncalls' = ncalls + 1
    /\ SetGraph(r.g)
    /\ lastCreated' = Some([id |-> r.id, reused |-> dead # << >>])
    /\ last' = Observed(op, r.id, "Ok", 0, dead # << >>)
    /\ reads' = << >>
    /\ writes' = << >>
    /\ UNCHANGED <<panicked, lastOut>>
    /\ UNCHANGED notGraph

create_add ==
    \E a \in NodeInput \cup StoreInput, b \in ConstInput :
        /\ Created("create_add", add_node(G, Add(a, b)))
        /\ UNCHANGED lastOutputId

create_sub ==
    \E a \in ConstInput, b \in ConstInput :
        /\ Created("create_sub", add_node(G, Sub(a, b)))
        /\ UNCHANGED lastOutputId

create_mul ==
    \E a \in ConstInput, b \in ConstInput :
        /\ Created("create_mul", add_node(G, Mul(a, b)))
        /\ UNCHANGED lastOutputId

create_writer ==
    \E s \in {0}, v \in {NodeOut(0)} \cup ConstInput :
        /\ Created("create_writer", add_node(G, Writer(s, v)))
        /\ UNCHANGED lastOutputId

\* The oscillators are created with constant inputs: a frequency of a
\* quarter of the sample rate, and an amplitude of either sign.
create_square ==
    \E freq \in {Value(11025)}, amp \in {Value(1), Value(-2)} :
        /\ Created("create_square", add_node(G, Square(freq, amp)))
        /\ UNCHANGED lastOutputId

create_saw ==
    \E freq \in {Value(11025)}, amp \in {Value(1), Value(-2)} :
        /\ Created("create_saw", add_node(G, Saw(freq, amp)))
        /\ UNCHANGED lastOutputId

create_output ==
    \E from \in {NodeOut(0)} :
        LET r == create_output_in(G, from)
        IN  /\ Created("create_output", r)
            /\ lastOutputId' = Some(r.id)

create_value_store ==
    LET r == create_value_store_in(G)
    IN  /\ CanCall
        /\ ncalls' = ncalls + 1
        /\ SetGraph(r.g)
        /\ last' = Observed("create_value_store", r.id, "Ok", 0, FALSE)
        /\ reads' = << >>
        /\ writes' = << >>
        /\ UNCHANGED <<panicked, lastOut, lastCreated, lastOutputId>>
        /\ UNCHANGED notGraph

delete_node ==
    \E id \in 0..Len(nodes) :
        LET r == delete_node_in(G, id)
        IN  /\ CanCall
            /\ ncalls' = ncalls + 1
            /\ SetGraph(r.g)
            /\ panicked' = (r.ret = "panic")
            /\ last' = Observed("delete_node", id, r.ret, 0, FALSE)
            /\ reads' = << >>
            /\ writes' = << >>
            /\ UNCHANGED <<lastOut, lastCreated, lastOutputId>>
            /\ UNCHANGED notGraph

sample ==
    LET r == sample_in(G)
    IN  /\ CanCall
        /\ ncalls' = ncalls + 1
        /\ SetGraph(r.g)
        /\ reads' = r.reads
        /\ writes' = r.writes
        /\ panicked' = ~r.ok
        /\ lastOut' = IF r.ok THEN r.g.outputs ELSE lastOut
        /\ last' = Observed("sample", 0, IF r.ok THEN "Ok" ELSE "panic",
                            r.val, FALSE)
        /\ UNCHANGED <<lastCreated, lastOutputId>>
        /\ UNCHANGED notGraph

\* The graph NodeGraph::new returns, no call made on it yet.
GraphInit ==
    /\ nodes = NewGraph.nodes
    /\ dead = NewGraph.dead
    /\ output_node = NewGraph.output_node
    /\ outputs = NewGraph.outputs
    /\ store = NewGraph.store
    /\ panicked = FALSE
    /\ last = Observed("new", 0, "Ok", 0, FALSE)
    /\ reads = << >>
    /\ writes = << >>
    /\ lastOut = << >>
    /\ lastCreated = None
    /\ lastOutputId = None
    /\ ncalls = 0

\* ================================================================== lex
\* Characters are one-character strings, a String is a sequence of them.
Letters == {"a", "b", "c", "d", "e", "f", "g", "h", "i", "j", "k", "l", "m",
            "n", "o", "p", "q", "r", "s", "t", "u", "v", "w", "x", "y", "z",
            "A", "B", "C", "D", "E", "F", "G", "H", "I", "J", "K", "L", "M",
            "N", "O", "P", "Q", "R", "S", "T", "U", "V", "W", "X", "Y", "Z"}
Digits == {"0", "1", "2", "3", "4", "5", "6", "7", "8", "9"}
Whitespace == {" ", "\n", "\t", "\r"}

\* char::is_ascii_alphanumeric
is_ascii_alphanumeric(c) == c \in Letters \cup Digits

\* The characters lex is given in LexSpec: one or two per arm of its match.
Chars == {"a", "1", " ", "\n", "_", "-", ".", "(", ")", "=", ",", "#", "$"}

\* Reader (parser.rs 13-58) on the text d at position p
has_next(d, p) == p < Len(d)
current(d, p)  == IF p >= Len(d) THEN "NUL" ELSE d[p + 1]

\* The character classes the inner loops of lex scan over.
InClass(class, c) ==
    CASE class = "identifier" -> is_ascii_alphanumeric(c)
      [] class = "number"     -> c \in Digits \cup {".", "-"}
      [] class = "comment"    -> c # "\n" /\ c # "\r"

\* while <current is in the class> && sr.has_next() { sr.next(); }
\* from position p: the position the loop stops at.
RECURSIVE ScanWhile(_, _, _)
ScanWhile(class, d, p) ==
    IF has_next(d, p) /\ InClass(class, current(d, p))
    THEN ScanWhile(class, d, p + 1)
    ELSE p

\* str::parse::<f32> on text made of digits, '.' and '-': an optional
\* leading '-', then digits with at most one '.', at least one digit.
\* The value is kept as the decimal literal: sign, mantissa and number of
\* fraction digits.
Unsigned(t) == IF t # << >> /\ t[1] = "-" THEN Tail(t) ELSE t

DigitValue(c) ==
    CASE c = "0" -> 0 [] c = "1" -> 1 [] c = "2" -> 2 [] c = "3" -> 3
      [] c = "4" -> 4 [] c = "5" -> 5 [] c = "6" -> 6 [] c = "7" -> 7
      [] c = "8" -> 8 [] c = "9" -> 9

RECURSIVE Mantissa(_, _)
Mantissa(t, acc) ==
    IF t = << >> THEN acc
    ELSE IF t[1] = "." THEN Mantissa(Tail(t), acc)
    ELSE Mantissa(Tail(t), 10 * acc + DigitValue(t[1]))

RECURSIVE FractionDigits(_, _)
FractionDigits(t, seen) ==
    IF t = << >> THEN 0
    ELSE IF t[1] = "." THEN FractionDigits(Tail(t), TRUE)
    ELSE (IF seen THEN 1 ELSE 0) + FractionDigits(Tail(t), seen)

F32(neg, m, e) == [neg |-> neg, m |-> m, e |-> e]
Zero == F32(FALSE, 0, 0)
One  == F32(FALSE, 1, 0)

parse_f32(t) ==
    LET u == Unsigned(t)
    IN  IF /\ \A i \in 1..Len(u) : u[i] \in Digits \cup {"."}
           /\ Cardinality({i \in 1..Len(u) : u[i] = "."}) <= 1
           /\ \E i \in 1..Len(u) : u[i] \in Digits
        THEN [ok |-> TRUE,
              v  |-> F32(u # t, Mantissa(u, 0), FractionDigits(u, FALSE))]
        ELSE [ok |-> FALSE, v |-> Zero]

Token(token_type, lexeme, value) ==
    [token_type |-> token_type, lexeme |-> lexeme, value |-> value]

\* The token vector can hold this many tokens before its allocation fails.
\* A run of lex that returns pushes at most one token per character and the
\* end sentinel, so only a run that never ends reaches the cap.
TokenCap(d) == Len(d) + 2

\* The state of a run of lex: Reader.pos, the token vector, and where the
\* run is: "loop", "returned", "panic" (number.parse failed) or "exhausted".
LexState(p, toks, pc) == [pos |-> p, tokens |-> toks, pc |-> pc]

\* tokens.push(t), the reader then at position p.
Push(d, st, t, p) ==
    IF Len(st.tokens) < TokenCap(d)
    THEN LexState(p, Append(st.tokens, t), st.pc)
    ELSE LexState(st.pos, st.tokens, "exhausted")

\* One iteration of `while sr.has_next() { match sr.current() { ... } }`,
\* or, when the loop is left, the push of the end sentinel and the return.
lex_iter(d, st) ==
    LET c == current(d, st.pos)
    IN  IF ~has_next(d, st.pos)
        THEN LexState(st.pos, Append(st.tokens, Token("EOF", << >>, Zero)),
                      "returned")
        ELSE CASE c \in Letters \cup {"_"} ->
                    LET q == ScanWhile("identifier", d, st.pos)
                    IN  Push(d, st,
                             Token("Identifier", SubSeq(d, st.pos + 1, q), Zero),
                             q)
               [] c \in Digits \cup {"-", "."} ->
                    LET q      == ScanWhile("number", d, st.pos)
                        number == SubSeq(d, st.pos + 1, q)
                        num    == parse_f32(number)
                    IN  IF num.ok
                        THEN Push(d, st, Token("Number", number, num.v), q)
                        ELSE LexState(q, st.tokens, "panic")
               [] c = "(" -> Push(d, st, Token("LParen", << >>, Zero), st.pos + 1)
               [] c = ")" -> Push(d, st, Token("RParen", << >>, Zero), st.pos + 1)
               [] c = "=" -> Push(d, st, Token("Equals", << >>, Zero), st.pos + 1)
               [] c = "," -> Push(d, st, Token("Comma", << >>, Zero), st.pos + 1)
               [] c \in Whitespace -> LexState(st.pos + 1, st.tokens, st.pc)
               [] c = "#" ->
                    LexState(ScanWhile("comment", d, st.pos), st.tokens, st.pc)
               [] OTHER ->
                    Push(d, st, Token("Unknown", << >>, Zero), st.pos + 1)

\* lex(input), run until it returns, panics or exhausts memory.
RECURSIVE lex_run(_, _)
lex_run(d, st) ==
    IF st.pc # "loop" THEN st ELSE lex_run(d, lex_iter(d, st))

lex(d) == lex_run(d, LexState(0, << >>, "loop"))

\* ---- lex, iteration by iteration, on the variables
LexNow == LexState(sr_pos, lex_tokens, lexPc)

SetLex(st) ==
    /\ sr_pos' = st.pos
    /\ lex_tokens' = st.tokens
    /\ lexPc' = st.pc

lex_step ==
    /\ lexPc = "loop"
    /\ has_next(data, sr_pos)
    /\ SetLex(lex_iter(data, LexNow))
    /\ UNCHANGED <<data, notLex>>

lex_return ==
    /\ lexPc = "loop"
    /\ ~has_next(data, sr_pos)
    /\ SetLex(lex_iter(data, LexNow))
    /\ UNCHANGED <<data, notLex>>

\* ================================================================== Parser
\* Expr (parser.rs 150-157); Program(Vec<Expr>) is the sequence prog.
Literal(v)    == [e |-> "Literal",    v |-> v,    s |-> << >>, xs |-> << >>]
Identifier(s) == [e |-> "Identifier", v |-> Zero, s |-> s,     xs |-> << >>]
Assign(a, b)  == [e |-> "Assign",     v |-> Zero, s |-> << >>, xs |-> <<a, b>>]
Call(s, args) == [e |-> "Call",       v |-> Zero, s |-> s,     xs |-> args]

unknown_token == Token("Unknown", << >>, Zero)

\* Parser::prev, peek (tokens[pos]: out of range is a panic), advance, accept
prev(toks, p)       == IF p - 1 < 0 THEN unknown_token ELSE toks[p]
CanPeek(toks, p)    == p < Len(toks)
peek(toks, p)       == toks[p + 1]
advance(toks, p)    == IF p < Len(toks) THEN p + 1 ELSE p
accept(toks, p, tt) == p < Len(toks) /\ peek(toks, p).token_type = tt

\* What factor, call and stmt come back with: the expression and the
\* position reached, or the panic they unwound with.
Parsed(p, x)  == [ok |-> TRUE,  pos |-> p, expr |-> x, err |-> "none"]
Failed(p, why) == [ok |-> FALSE, pos |-> p, expr |-> Literal(Zero), err |-> why]

RECURSIVE factor(_, _)
RECURSIVE call(_, _)
RECURSIVE call_args(_, _, _)

\* The loop of call from position p with args collected so far; expr is
\* the argument vector.
call_args(toks, p, args) ==
    LET f == factor(toks, p)
    IN  IF ~f.ok THEN f
        ELSE LET more == Append(args, f.expr)
             IN  IF ~CanPeek(toks, f.pos)
                 THEN Failed(f.pos, "index out of bounds")
                 ELSE IF peek(toks, f.pos).token_type = "RParen"
                 THEN Parsed(advance(toks, f.pos), more)
                 ELSE IF accept(toks, f.pos, "Comma")
                 THEN call_args(toks, advance(toks, f.pos), more)
                 ELSE Parsed(f.pos, more)

call(toks, p) ==
    LET func_name == prev(toks, p).lexeme
    IN  IF ~accept(toks, p, "LParen")
        THEN Failed(p, "Expected LParen")
        ELSE LET q == advance(toks, p)
             IN  IF ~CanPeek(toks, q)
                 THEN Failed(q, "index out of bounds")
                 ELSE IF peek(toks, q).token_type # "RParen"
                 THEN LET r == call_args(toks, q, << >>)
                      IN  IF r.ok
                          THEN Parsed(r.pos, Call(func_name, r.expr))
                          ELSE r
                 ELSE Parsed(advance(toks, q), Call(func_name, << >>))

factor(toks, p) ==
    IF accept(toks, p, "Number")
    THEN Parsed(advance(toks, p), Literal(peek(toks, p).value))
    ELSE IF accept(toks, p, "Identifier")
    THEN LET q == advance(toks, p)
         IN  IF ~CanPeek(toks, q)
             THEN Failed(q, "index out of bounds")
             ELSE IF peek(toks, q).token_type # "LParen"
             THEN Parsed(q, Identifier(prev(toks, q).lexeme))
             ELSE call(toks, q)
    ELSE IF accept(toks, p, "EOF")
    THEN Parsed(advance(toks, p), Literal(Zero))
    ELSE Failed(advance(toks, p), "Syntax error")

stmt(toks, p) ==
    LET var_name == factor(toks, p)
    IN  IF ~var_name.ok THEN var_name
        ELSE IF accept(toks, var_name.pos, "Equals")
        THEN LET val == factor(toks, advance(toks, var_name.pos))
             IN  IF val.ok
                 THEN Parsed(val.pos, Assign(var_name.expr, val.expr))
                 ELSE val
        ELSE Parsed(advance(toks, var_name.pos), var_name.expr)

\* The state of a run of parse: Parser.pos, the statements pushed so far,
\* where the run is ("loop", "returned", "panic") and the panic it ended with.
ParseState(p, pr, pc, err) == [pos |-> p, prog |-> pr, pc |-> pc, err |-> err]

\* One test of `while self.prev().token_type != TokenType::EOF` and, when it
\* passes, one `prog.push(*self.stmt())`.
parse_iter(toks, st) ==
    IF prev(toks, st.pos).token_type = "EOF"
    THEN ParseState(st.pos, st.prog, "returned", "none")
    ELSE LET r == stmt(toks, st.pos)
         IN  IF r.ok
             THEN ParseState(r.pos, Append(st.prog, r.expr), "loop", "none")
             ELSE ParseState(r.pos, st.prog, "panic", r.err)

\* parse(), run until it returns or panics.  Every iteration either moves
\* pos forward or finds pos at the end, behind the end sentinel.
RECURSIVE parse_run(_, _)
parse_run(toks, st) ==
    IF st.pc # "loop" THEN st ELSE parse_run(toks, parse_iter(toks, st))

parse(toks) == parse_run(toks, ParseState(0, << >>, "loop", "none"))

\* ================================================================== GraphLoader
\* Value (parser.rs 273-279)
Number(v)  == [t |-> "Number",  v |-> v,    id |-> 0]
NodeID(i)  == [t |-> "NodeID",  v |-> Zero, id |-> i]
StoreID(i) == [t |-> "StoreID", v |-> Zero, id |-> i]
Nil        == [t |-> "Nil",     v |-> Zero, id |-> 0]

\* An f32 literal as the number the graph computes with.  The graph's
\* arithmetic is on integers: the literals of the programs loaded here have
\* a zero fraction, for which the quotient is exact.
RECURSIVE Pow10(_)
Pow10(e) == IF e = 0 THEN 1 ELSE 10 * Pow10(e - 1)
Num(lit) == (IF lit.neg THEN -1 ELSE 1) * (lit.m \div Pow10(lit.e))

\* impl Into<Input> for Value
\* (variant) into that turns NodeID(i) into Input::Node(i + 1)
into_next_node(val) ==
    CASE val.t = "Nil"     -> Value(0)
      [] val.t = "NodeID"  -> NodeOut(val.id + 1)
      [] val.t = "StoreID" -> StoreVal(val.id)
      [] val.t = "Number"  -> Value(Num(val.v))

into(val) ==
    CASE val.t = "Nil"     -> Value(0)
      [] val.t = "NodeID"  -> NodeOut(val.id)
      [] val.t = "StoreID" -> StoreVal(val.id)
      [] val.t = "Number"  -> Value(Num(val.v))

get_number(val) == IF val.t = "Number" THEN Num(val.v) ELSE 0

\* The names the programs of this model are written with.
Spell ==
    [n \in {"CreateStore", "LFO", "Output", "Sine", "Square", "Saw",
            "Triangle", "Map", "Add", "Sub", "Mul", "Writer", "Mix",
            "Foo", "x", "s"} |->
        CASE n = "CreateStore" -> <<"C","r","e","a","t","e","S","t","o","r","e">>
          [] n = "LFO"      -> <<"L","F","O">>
          [] n = "Output"   -> <<"O","u","t","p","u","t">>
          [] n = "Sine"     -> <<"S","i","n","e">>
          [] n = "Square"   -> <<"S","q","u","a","r","e">>
          [] n = "Saw"      -> <<"S","a","w">>
          [] n = "Triangle" -> <<"T","r","i","a","n","g","l","e">>
          [] n = "Map"      -> <<"M","a","p">>
          [] n = "Add"      -> <<"A","d","d">>
          [] n = "Sub"      -> <<"S","u","b">>
          [] n = "Mul"      -> <<"M","u","l">>
          [] n = "Writer"   -> <<"W","r","i","t","e","r">>
          [] n = "Mix"      -> <<"M","i","x">>
          [] n = "Foo"      -> <<"F","o","o">>
          [] n = "x"        -> <<"x">>
          [] n = "s"        -> <<"s">>]

\* The arms of `match func.as_str()` and the number of args each indexes.
Functions == {"CreateStore", "LFO", "Output", "Sine", "Square", "Saw",
              "Triangle", "Map", "Add", "Sub", "Mul", "Writer", "Mix"}
Arity(f) ==
    CASE f = "CreateStore"       -> 0
      [] f \in {"LFO", "Output"} -> 1
      [] f = "Map"               -> 5
      [] f = "Mix"               -> 3
      [] OTHER                   -> 2
IsFunction(s) == \E f \in Functions : s = Spell[f]
FunctionOf(s) == CHOOSE f \in Functions : s = Spell[f]

\* variables: HashMap<String, Value>, as the set of its entries
Has(env, k)    == \E b \in env : b.k = k
Get(env, k)    == (CHOOSE b \in env : b.k = k).v
Put(env, k, v) == {b \in env : b.k # k} \cup {[k |-> k, v |-> v]}

\* What visit comes back with: the Value, the variables and the graph as
\* it left them, or the panic it unwound with.
Visited(val, env, g) ==
    [ok |-> TRUE, val |-> val, vals |-> << >>, env |-> env, g |-> g,
     err |-> "none"]
Unwound(env, g, why) ==
    [ok |-> FALSE, val |-> Nil, vals |-> << >>, env |-> env, g |-> g,
     err |-> why]

\* The node a call arm creates from the Values of its args.
NodeOf(f, vals) ==
    CASE f = "LFO"      -> LFO(into(vals[1]))
      [] f = "Sine"     -> Sine(into(vals[1]), into(vals[2]))
      [] f = "Square"   -> Square(into(vals[1]), into(vals[2]))
      [] f = "Saw"      -> Saw(into(vals[1]), into(vals[2]))
      [] f = "Triangle" -> Triangle(into(vals[1]), into(vals[2]))
      [] f = "Map"      -> Map(into(vals[1]), get_number(vals[2]),
                               get_number(vals[3]), get_number(vals[4]),
                               get_number(vals[5]))
      [] f = "Add"      -> Add(into(vals[1]), into(vals[2]))
      [] f = "Sub"      -> Sub(into(vals[1]), into(vals[2]))
      [] f = "Mul"      -> Mul(into(vals[1]), into(vals[2]))
      [] f = "Writer"   -> Writer(vals[1].id, into(vals[2]))
      [] f = "Mix"      -> Mix(into(vals[1]), into(vals[2]), get_number(vals[3]))

RECURSIVE visit(_, _, _)
RECURSIVE visit_args(_, _, _, _, _)

\* self.visit(args[i].clone(), graph) for i = from .. n - 1, in order, the
\* Values collected in acc.vals; args[i] panics when the call has no such arg.
visit_args(args, from, n, f, acc) ==
    IF from >= n \/ ~acc.ok
    THEN acc
    ELSE IF from >= Len(args)
    THEN Unwound(acc.env, acc.g, "index out of bounds")
    ELSE LET r == visit(args[from + 1], acc.env, acc.g)
         IN  IF ~r.ok THEN r
             ELSE IF f = "Writer" /\ from = 0 /\ r.val.t # "StoreID"
             THEN Unwound(r.env, r.g, "Invalid Store ID.")
             ELSE visit_args(args, from + 1, n, f,
                             [r EXCEPT !.vals = Append(acc.vals, r.val)])

visit(expr, env, g) ==
    CASE expr.e = "Literal" -> Visited(Number(expr.v), env, g)
      [] expr.e = "Identifier" ->
           IF ~Has(env, expr.s)
           THEN Visited(Nil, Put(env, expr.s, Nil), g)
           ELSE Visited(Get(env, expr.s), env, g)
      [] expr.e = "Assign" ->
           IF expr.xs[1].e # "Identifier"
           THEN Unwound(env, g, "Invalid variable.")
           ELSE LET b == visit(expr.xs[2], env, g)
                IN  IF ~b.ok THEN b
                    ELSE Visited(Nil, Put(b.env, expr.xs[1].s, b.val), b.g)
      [] expr.e = "Call" ->
           IF ~IsFunction(expr.s)
           THEN Unwound(env, g, "Invalid function")
           ELSE LET f == FunctionOf(expr.s)
                    r == visit_args(expr.xs, 0, Arity(f), f, Visited(Nil, env, g))
                IN  IF ~r.ok THEN r
                    ELSE IF f = "CreateStore"
                    THEN LET c == create_value_store_in(r.g)
                         IN  Visited(StoreID(c.id), r.env, c.g)
                    ELSE IF f = "Output"
                    THEN LET c == create_output_in(r.g, into(r.vals[1]))
                         IN  Visited(NodeID(c.id), r.env, c.g)
                    ELSE LET c == add_node(r.g, NodeOf(f, r.vals))
                         IN  Visited(NodeID(c.id), r.env, c.g)

\* Expr::Program: `for expr in exprs.into_iter() { self.visit(expr, graph); }`
RECURSIVE visit_program(_, _, _)
visit_program(exprs, i, acc) ==
    IF i >= Len(exprs) \/ ~acc.ok
    THEN acc
    ELSE visit_program(exprs, i + 1, visit(exprs[i + 1], acc.env, acc.g))

\* GraphLoader::new(file).load() on the text d of the file: the graph, or
\* the panic of lex, of parse or of visit ("exhausted": lex never returns).
Loaded(g)       == [ok |-> TRUE,  g |-> g,        err |-> "none"]
LoadFailed(why) == [ok |-> FALSE, g |-> NewGraph, err |-> why]

\* load from the point where visit has come back with b
load_built(b) == IF b.ok THEN Loaded(b.g) ELSE LoadFailed(b.err)

\* load from the point where parse has come back with pr
load_parsed(pr) ==
    IF pr.pc # "returned"
    THEN LoadFailed(pr.err)
    ELSE load_built(visit_program(pr.prog, 0, Visited(Nil, {}, NewGraph)))

\* Parser::new calls lex; load from the point where lex has come back with lx
load_lexed(lx) ==
    IF lx.pc # "returned"
    THEN LoadFailed(IF lx.pc = "panic" THEN "Invalid number." ELSE "exhausted")
    ELSE load_parsed(parse(lx.tokens))

load(d) == load_lexed(lex(d))

\* ---- Parser::parse and GraphLoader::load, step by step on the variables
\* One iteration of the loop of parse.
parse_step ==
    /\ loadPc = "parse"
    /\ parsePc = "loop"
    /\ prev(tokens, pos).token_type # "EOF"
    /\ LET st == parse_iter(tokens, ParseState(pos, prog, parsePc, parseErr))
       IN  /\ pos' = st.pos
           /\ prog' = st.prog
           /\ parsePc' = st.pc
           /\ parseErr' = st.err
           /\ loadPc' = IF st.pc = "panic" THEN "panic" ELSE loadPc
           /\ loadErr' = IF st.pc = "panic" THEN st.err ELSE loadErr
    /\ UNCHANGED <<tokens, variables, visited>>
    /\ UNCHANGED graphData
    /\ UNCHANGED notLoad

\* The loop of parse is left: parse returns the Program and load goes on to
\* `let mut graph = NodeGraph::new(44100); self.visit(*prog, &mut graph)`.
parse_return ==
    /\ loadPc = "parse"
    /\ parsePc = "loop"
    /\ prev(tokens, pos).token_type = "EOF"
    /\ parsePc' = "returned"
    /\ loadPc' = "visit"
    /\ UNCHANGED <<tokens, pos, prog, parseErr, variables, visited, loadErr>>
    /\ UNCHANGED graphData
    /\ UNCHANGED notLoad

\* One iteration of the loop of the Program arm: visit the next statement.
\* A panic unwinds out of load: the graph under construction is dropped.
load_visit ==
    /\ loadPc = "visit"
    /\ visited < Len(prog)
    /\ LET r == visit(prog[visited + 1], variables, G)
       IN  IF r.ok
           THEN /\ SetGraph(r.g)
                /\ variables' = r.env
                /\ visited' = visited + 1
                /\ UNCHANGED <<loadPc, loadErr>>
           ELSE /\ SetGraph(NewGraph)
                /\ loadPc' = "panic"
                /\ loadErr' = r.err
                /\ UNCHANGED <<variables, visited>>
    /\ UNCHANGED <<tokens, pos, prog, parsePc, parseErr>>
    /\ UNCHANGED notLoad

\* The Program is visited: load returns the graph.
load_return ==
    /\ loadPc = "visit"
    /\ visited = Len(prog)
    /\ loadPc' = "returned"
    /\ UNCHANGED <<tokens, pos, prog, parsePc, parseErr, variables, visited,
                   loadErr>>
    /\ UNCHANGED graphData
    /\ UNCHANGED notLoad

\* ---- the inputs
\* The token streams lex hands to the Parser: any tokens, then the end
\* sentinel.  One identifier (which names a function and may name a
\* variable), one number.
TokenAlphabet ==
    {Token("Identifier", Spell["Output"], Zero), Token("Number", <<"1">>, One),
     Token("LParen", << >>, Zero), Token("RParen", << >>, Zero),
     Token("Equals", << >>, Zero), Token("Comma", << >>, Zero),
     Token("Unknown", << >>, Zero)}

Streams ==
    {Append(ts, Token("EOF", << >>, Zero)) :
        ts \in UNION {[1..n -> TokenAlphabet] : n \in 0..MaxStream}}

\* The statements of the programs handed to visit.
L    == Literal(One)
X    == Identifier(Spell["x"])
S    == Identifier(Spell["s"])
Foo1 == Call(Spell["Foo"], <<L>>)

\* f(first, x, 1, ...) with as many args as f indexes
ExactArgs(f, first) ==
    [i \in 1..Arity(f) |-> IF i = 1 THEN first ELSE IF i = 2 THEN X ELSE L]

Calls == {Call(Spell[f], ExactArgs(f, first)) : f \in Functions, first \in {L, X, S}}

\* An unrecognised call as a statement, as the value of an assignment, as
\* an argument a call indexes, nested deeper, and as an argument beyond
\* those a call indexes.
UnknownCalls ==
    {Foo1,
     Assign(X, Foo1),
     Call(Spell["Output"], <<Foo1>>),
     Call(Spell["Add"], <<L, Foo1>>),
     Call(Spell["Output"], <<Call(Spell["Add"], <<L, Foo1>>)>>),
     Call(Spell["Output"], <<L, Foo1>>),
     Call(Spell["CreateStore"], <<Foo1>>),
     Call(Spell["Mix"], <<L, L, L, Foo1>>)}

Others ==
    {L, X,
     Assign(X, L),
     Assign(X, S),
     Assign(S, Call(Spell["CreateStore"], << >>)),
     Assign(X, Call(Spell["Add"], <<X, L>>)),
     Assign(X, Call(Spell["Output"], <<X>>)),
     Assign(Foo1, L),
     Call(Spell["Add"], <<L>>),
     Call(Spell["Output"], <<Call(Spell["Add"], <<L, L>>)>>),
     Call(Spell["Writer"], <<S, Call(Spell["Add"], <<S, L>>)>>)}

Statements == Calls \cup UnknownCalls \cup Others

Programs == UNION {[1..n -> Statements] : n \in 0..MaxStmts}

\* ================================================================== main
\* The texts synth.twg holds: the default main writes, another valid
\* program, and one text for each way a load fails: the builder's panic on
\* an unknown function, the parser's on a token no factor starts with, and
\* lex's on a malformed number.  LatchText keeps state from one sample()
\* to the next: its Output reads the store slot before its Writer sets it
\* to 1, so a fresh graph yields 0, 1, 1, ...
DefaultText == Spell["Output"] \o <<"(", "0", ".", "0", ")">>
LatchText ==
    <<"s", "=">> \o Spell["CreateStore"] \o <<"(", ")", "\n">>
    \o <<"o", "=">> \o Spell["Output"] \o <<"(", "s", ")", "\n">>
    \o <<"w", "=">> \o Spell["Writer"] \o <<"(", "s", ",", "1", ")">>
DriverTexts ==
    {DefaultText,
     LatchText,
     Spell["Output"] \o <<"(", "1", ")">>,
     Spell["Foo"] \o <<"(", ")">>,
     <<")">>,
     <<"-">>}

\* The process is running: main has neither left its loop nor panicked.
Alive == mainPc \notin {"quit", "panic"}

\* (variant) a reload whose graph keeps the store of the graph it replaces.
Install_keeps_store(r, pc) ==
    IF r.ok
    THEN /\ SetGraph([r.g EXCEPT !.store =
                         IF Len(store) = Len(r.g.store) THEN store ELSE @])
         /\ gen' = gen + 1
         /\ mainPc' = pc
         /\ UNCHANGED mainErr
    ELSE /\ mainPc' = "panic"
         /\ mainErr' = r.err
         /\ UNCHANGED <<graphData, gen>>

\* `graph = loader.load()`: the new graph replaces the old one, or the
\* panic of load unwinds out of main.
\* main goes on at pc once the graph is installed.
Install(r, pc) ==
    IF r.ok
    THEN /\ SetGraph(r.g)
         /\ gen' = gen + 1
         /\ mainPc' = pc
         /\ UNCHANGED mainErr
    ELSE /\ mainPc' = "panic"
         /\ mainErr' = r.err
         /\ UNCHANGED <<graphData, gen>>

\* main.rs 68-75: write the default when there is no file, then load.
main_start ==
    /\ mainPc = "start"
    /\ LET text == IF file = None THEN DefaultText ELSE file[1]
       IN  /\ file' = Some(text)
           /\ Install(load(text), "init_fill")
           /\ loaded' = [text |-> text, taken |-> 0]
    /\ UNCHANGED <<watch, samples, fill_i, toCallback, toMain, cbPc, device, edits>>
    /\ UNCHANGED notMain

\* One `graph.sample()` of a batch: init_samples.push (83-86) or
\* samples[i] = (117-119).  Each sample is kept with the graph it is from.
main_sample ==
    /\ mainPc \in {"init_fill", "fill"}
    /\ fill_i < BatchLen
    /\ LET r == sample_in(G)
           s == [v |-> r.val, gen |-> gen]
       IN  IF r.ok
           THEN /\ SetGraph(r.g)
                /\ samples' = IF mainPc = "init_fill"
                              THEN Append(samples, s)
                              ELSE [samples EXCEPT ![fill_i + 1] = s]
                /\ fill_i' = fill_i + 1
                /\ loaded' = [loaded EXCEPT !.taken =
                                 IF @ < MaxTaken THEN @ + 1 ELSE @]
                /\ UNCHANGED <<mainPc, mainErr>>
           ELSE /\ mainPc' = "panic"
                /\ mainErr' = "index out of bounds"
                /\ UNCHANGED <<graphData, samples, fill_i, loaded>>
    /\ UNCHANGED <<file, watch, gen, toCallback, toMain, cbPc, device, edits>>
    /\ UNCHANGED notMain

\* audioSender.send(...) of the filled batch (87, 120), then the next turn
\* of the loop.
main_send ==
    /\ mainPc \in {"init_fill", "fill"}
    /\ fill_i = BatchLen
    /\ toCallback' = Append(toCallback, samples)
    /\ mainPc' = "events"
    /\ UNCHANGED <<file, watch, mainErr, gen, loaded, samples, fill_i, toMain, cbPc,
                   device, edits>>
    /\ UNCHANGED graphData
    /\ UNCHANGED notMain

\* (variant) a file event is handled as soon as it is pending, also while a
\* batch is being filled.
main_event_mid_batch ==
    /\ mainPc \in {"events", "fill"}
    /\ watch # << >>
    /\ watch' = Tail(watch)
    /\ file' = IF Head(watch) = "NoticeRemove" THEN Some(DefaultText) ELSE file
    /\ IF Head(watch) = "NoticeWrite" /\ file = None
       THEN /\ mainPc' = "panic"
            /\ mainErr' = "Error: No such file"
            /\ UNCHANGED <<graphData, gen, loaded>>
       ELSE /\ Install(load(IF Head(watch) = "NoticeRemove"
                            THEN DefaultText
                            ELSE file[1]),
                       mainPc)
            /\ loaded' = [text  |-> IF Head(watch) = "NoticeRemove"
                                    THEN DefaultText
                                    ELSE file[1],
                          taken |-> 0]
    /\ UNCHANGED <<samples, fill_i, toCallback, toMain, cbPc, device, edits>>
    /\ UNCHANGED notMain

\* `for event in rx.try_iter()`: one pending file event (91-104).
main_event ==
    /\ mainPc = "events"
    /\ watch # << >>
    /\ watch' = Tail(watch)
    /\ file' = IF Head(watch) = "NoticeRemove" THEN Some(DefaultText) ELSE file
    /\ IF Head(watch) = "NoticeWrite" /\ file = None
       THEN /\ mainPc' = "panic"
            /\ mainErr' = "Error: No such file"
            /\ UNCHANGED <<graphData, gen, loaded>>
       ELSE /\ Install(load(IF Head(watch) = "NoticeRemove"
                            THEN DefaultText
                            ELSE file[1]),
                       "events")
            /\ loaded' = [text  |-> IF Head(watch) = "NoticeRemove"
                                    THEN DefaultText
                                    ELSE file[1],
                          taken |-> 0]
    /\ UNCHANGED <<samples, fill_i, toCallback, toMain, cbPc, device, edits>>
    /\ UNCHANGED notMain

\* try_iter finds no event pending.
main_events_done ==
    /\ mainPc = "events"
    /\ watch = << >>
    /\ mainPc' = "poll"
    /\ UNCHANGED <<file, watch, mainErr, gen, loaded, samples, fill_i, toCallback,
                   toMain, cbPc, device, edits>>
    /\ UNCHANGED graphData
    /\ UNCHANGED notMain

\* event_pump.poll_iter(): Quit or Escape leaves the loop (106-114).
main_poll ==
    /\ mainPc = "poll"
    /\ \E quit \in BOOLEAN : mainPc' = IF quit THEN "quit" ELSE "recv"
    /\ UNCHANGED <<file, watch, mainErr, gen, loaded, samples, fill_i, toCallback,
                   toMain, cbPc, device, edits>>
    /\ UNCHANGED graphData
    /\ UNCHANGED notMain

\* (variant) main goes on to fill the batch it holds without waiting for a
\* buffer to come back.
main_recv_no_wait ==
    /\ mainPc = "recv"
    /\ fill_i' = 0
    /\ mainPc' = "fill"
    /\ UNCHANGED <<file, watch, mainErr, gen, loaded, samples, toMain,
                   toCallback, cbPc, device, edits>>
    /\ UNCHANGED graphData
    /\ UNCHANGED notMain

\* audioReceiver.recv() (116): blocks until the callback has sent a buffer back.
main_recv ==
    /\ mainPc = "recv"
    /\ toMain # << >>
    /\ samples' = Head(toMain)
    /\ toMain' = Tail(toMain)
    /\ fill_i' = 0
    /\ mainPc' = "fill"
    /\ UNCHANGED <<file, watch, mainErr, gen, loaded, toCallback, cbPc, device, edits>>
    /\ UNCHANGED graphData
    /\ UNCHANGED notMain

\* The device asks for samples: AudioOutput::callback is entered (32-33).
callback_invoke ==
    /\ Alive
    /\ cbPc = "idle"
    /\ cbPc' = "recv"
    /\ UNCHANGED <<file, watch, mainPc, mainErr, gen, loaded, samples, fill_i,
                   toCallback, toMain, device, edits>>
    /\ UNCHANGED graphData
    /\ UNCHANGED notMain

\* self.rx.recv() returns a buffer: copy it out and send it back (33-35).
callback_run ==
    /\ Alive
    /\ cbPc = "recv"
    /\ toCallback # << >>
    /\ device' = Head(toCallback)
    /\ toCallback' = Tail(toCallback)
    /\ toMain' = Append(toMain, Head(toCallback))
    /\ cbPc' = "idle"
    /\ UNCHANGED <<file, watch, mainPc, mainErr, gen, loaded, samples, fill_i, edits>>
    /\ UNCHANGED graphData
    /\ UNCHANGED notMain

\* The file is saved with some text: the watcher, set up once the first
\* graph is loaded (78-80), reports a NoticeWrite.
file_write ==
    /\ Alive
    /\ mainPc # "start"
    /\ edits < MaxEdits
    /\ \E t \in DriverTexts : file' = Some(t)
    /\ watch' = Append(watch, "NoticeWrite")
    /\ edits' = edits + 1
    /\ UNCHANGED <<mainPc, mainErr, gen, loaded, samples, fill_i, toCallback, toMain,
                   cbPc, device>>
    /\ UNCHANGED graphData
    /\ UNCHANGED notMain

\* The file is removed: the watcher reports a NoticeRemove.
file_remove ==
    /\ Alive
    /\ mainPc # "start"
    /\ edits < MaxEdits
    /\ file # None
    /\ file' = None
    /\ watch' = Append(watch, "NoticeRemove")
    /\ edits' = edits + 1
    /\ UNCHANGED <<mainPc, mainErr, gen, loaded, samples, fill_i, toCallback, toMain,
                   cbPc, device>>
    /\ UNCHANGED graphData
    /\ UNCHANGED notMain

\* ================================================================== specifications
\* Each specification runs one component; the others stay at rest.
LexIdle ==
    /\ data = << >>
    /\ sr_pos = 0
    /\ lex_tokens = << >>
    /\ lexPc = "idle"

LoadIdle ==
    /\ tokens = << >>
    /\ pos = 0
    /\ prog = << >>
    /\ parsePc = "idle"
    /\ parseErr = "none"
    /\ variables = {}
    /\ visited = 0
    /\ loadPc = "idle"
    /\ loadErr = "none"

MainIdle ==
    /\ file = None
    /\ watch = << >>
    /\ mainPc = "idle"
    /\ mainErr = "none"
    /\ gen = 0
    /\ loaded = [text |-> << >>, taken |-> 0]
    /\ samples = << >>
    /\ fill_i = 0
    /\ toCallback = << >>
    /\ toMain = << >>
    /\ cbPc = "idle"
    /\ device = << >>
    /\ edits = 0

\* Spec: NodeGraph::new, then any sequence of calls on the graph.
Init == GraphInit /\ LexIdle /\ LoadIdle /\ MainIdle

Next ==
    \/ create_add
    \/ create_sub
    \/ create_mul
    \/ create_writer
    \/ create_output
    \/ create_value_store
    \/ delete_node
    \/ sample

Spec == Init /\ [][Next]_vars

\* OscSpec: NodeGraph::new, then oscillators are created and sampled.
OscNext ==
    \/ create_square
    \/ create_saw
    \/ sample

OscSpec == Init /\ [][OscNext]_vars

\* LexSpec: lex on any text of at most MaxInput characters.
Texts == UNION {[1..n -> Chars] : n \in 0..MaxInput}

LexInit ==
    /\ GraphInit /\ LoadIdle /\ MainIdle
    /\ data \in Texts
    /\ sr_pos = 0
    /\ lex_tokens = << >>
    /\ lexPc = "loop"

LexNext ==
    \/ lex_step
    \/ lex_return

LexSpec == LexInit /\ [][LexNext]_vars

\* LoadSpec: GraphLoader::load from the token stream lex returned.
LoadInit ==
    /\ GraphInit /\ LexIdle /\ MainIdle
    /\ tokens \in Streams
    /\ pos = 0
    /\ prog = << >>
    /\ parsePc = "loop"
    /\ parseErr = "none"
    /\ variables = {}
    /\ visited = 0
    /\ loadPc = "parse"
    /\ loadErr = "none"

LoadNext ==
    \/ parse_step
    \/ parse_return
    \/ load_visit
    \/ load_return

LoadSpec == LoadInit /\ [][LoadNext]_vars

\* BuildSpec: GraphLoader::load from the Program parse returned.
BuildInit ==
    /\ GraphInit /\ LexIdle /\ MainIdle
    /\ tokens = << >>
    /\ pos = 0
    /\ prog \in Programs
    /\ parsePc = "returned"
    /\ parseErr = "none"
    /\ variables = {}
    /\ visited = 0
    /\ loadPc = "visit"
    /\ loadErr = "none"

BuildNext ==
    \/ load_visit
    \/ load_return

BuildSpec == BuildInit /\ [][BuildNext]_vars

\* MainSpec: main from the point where the audio device is opened, with
\* the file edited and removed while it runs.
MainInit ==
    /\ GraphInit /\ LexIdle /\ LoadIdle
    /\ file \in {None} \cup {Some(t) : t \in DriverTexts}
    /\ watch = << >>
    /\ mainPc = "start"
    /\ mainErr = "none"
    /\ gen = 0
    /\ loaded = [text |-> << >>, taken |-> 0]
    /\ samples = << >>
    /\ fill_i = 0
    /\ toCallback = << >>
    /\ toMain = << >>
    /\ cbPc = "idle"
    /\ device = << >>
    /\ edits = 0

MainNext ==
    \/ main_start
    \/ main_sample
    \/ main_send
    \/ main_event
    \/ main_events_done
    \/ main_poll
    \/ main_recv
    \/ callback_invoke
    \/ callback_run
    \/ file_write
    \/ file_remove

MainSpec == MainInit /\ [][MainNext]_vars

\* ================================================================== claims
CreateOps == {"create_add", "create_sub", "create_mul", "create_writer",
              "create_output"}

\* The step is the call op on the graph (every call is counted), and the
\* call returned rather than unwound.
Called(op) == ncalls' = ncalls + 1 /\ last'.op = op
Returned(op) == Called(op) /\ last'.ret # "panic"
ReturnedCreate == ncalls' = ncalls + 1 /\ last'.op \in CreateOps

\* The value a previous sample() left in slot j: 0.0 when no sample() has
\* written the slot yet.
LeftBy(before, j) == IF j < Len(before) THEN before[j + 1] ELSE 0

\* C1: in every sample() call each slot's output is written exactly once, in
\* strictly ascending id order, and a node at slot k whose input is
\* NodeOutput(j) reads the value written during this same call when j < k and
\* the value the previous sample() call left (0.0 if there was none) when
\* j >= k.
C1_SampleOrder ==
    [][Returned("sample") =>
         /\ writes' = [i \in 1..Len(nodes) |-> i - 1]
         /\ \A k \in 0..(Len(nodes) - 1) :
              LET ins == NodeInputs(nodes[k + 1])
              IN  \A i \in 1..Len(ins) :
                    ins[i].t = "Node" =>
                      reads'[k + 1][i] =
                        IF ins[i].v < k
                        THEN outputs'[ins[i].v + 1]
                        ELSE LeftBy(lastOut, ins[i].v)]_vars

\* C1 witness: a sample() returned in which slot 0 read slot 1 (j > k) and
\* got a non-zero value left by an earlier call, and slot 1 read slot 0
\* (j < k) and got the value slot 0 had just been given.
C1_Witness ==
    /\ last.op = "sample"
    /\ Len(nodes) >= 2
    /\ nodes[1].kind = "Add" /\ nodes[1].a = NodeOut(1)
    /\ nodes[2].kind = "Add" /\ nodes[2].a = NodeOut(0)
    /\ reads[1][1] # 0
    /\ reads[2][1] = outputs[1]
    /\ reads[2][1] # reads[1][1]

\* C2 as stated: for every input text (identifiers that start with or
\* contain '_' included) lex terminates and returns a token list whose last
\* token is EOF and that holds no other EOF.  A run that leaves the loop only
\* by exhausting memory never returns.  (The abort on a malformed numeric
\* literal, the documented LexError, is not counted against the claim here.)
C2_LexTerminates ==
    /\ lexPc # "exhausted"
    /\ lexPc = "returned" =>
         /\ lex_tokens # << >>
         /\ \A i \in 1..Len(lex_tokens) :
              lex_tokens[i].token_type = "EOF" <=> i = Len(lex_tokens)

\* ---- the grammar of spec section 4.2, read as the claims read it: a
\* program is statements followed by the end sentinel,
\*     statement := factor ('=' factor)?
\*     factor    := NUMBER | IDENTIFIER ('(' args ')')?
\*     args      := (factor (',' factor)*)?
\* The streams end with the end sentinel, so a token that is not the
\* sentinel always has a successor.
Derived(p, x)   == [ok |-> TRUE,  pos |-> p, expr |-> x, err |-> "none"]
Rejected(p, why) == [ok |-> FALSE, pos |-> p, expr |-> << >>, err |-> why]

RECURSIVE G_factor(_, _)
RECURSIVE G_args(_, _, _)

\* After an argument: ')' closes the list, ',' goes on, anything else
\* leaves the list unclosed.
G_after(toks, f, args) ==
    IF ~f.ok THEN f
    ELSE CASE toks[f.pos + 1].token_type = "RParen" ->
                Derived(f.pos + 1, Append(args, f.expr))
           [] toks[f.pos + 1].token_type = "Comma" ->
                G_args(toks, f.pos + 1, Append(args, f.expr))
           [] OTHER -> Rejected(f.pos, "unclosed")

G_args(toks, p, args) == G_after(toks, G_factor(toks, p), args)

G_call(name, a) == IF a.ok THEN Derived(a.pos, Call(name, a.expr)) ELSE a

G_factor(toks, p) ==
    CASE toks[p + 1].token_type = "Number" ->
           Derived(p + 1, Literal(toks[p + 1].value))
      [] toks[p + 1].token_type = "Identifier" ->
           IF toks[p + 2].token_type # "LParen"
           THEN Derived(p + 1, Identifier(toks[p + 1].lexeme))
           ELSE IF toks[p + 3].token_type = "RParen"
           THEN Derived(p + 3, Call(toks[p + 1].lexeme, << >>))
           ELSE G_call(toks[p + 1].lexeme, G_args(toks, p + 2, << >>))
      [] OTHER -> Rejected(p, "no factor")

G_assign(f, val) ==
    IF val.ok THEN Derived(val.pos, Assign(f.expr, val.expr)) ELSE val

G_rest(toks, f) ==
    IF ~f.ok THEN f
    ELSE IF toks[f.pos + 1].token_type = "Equals"
    THEN G_assign(f, G_factor(toks, f.pos + 1))
    ELSE f

G_statement(toks, p) == G_rest(toks, G_factor(toks, p))

RECURSIVE G_program(_, _, _)
G_next(toks, s, stmts) ==
    IF s.ok THEN G_program(toks, s.pos, Append(stmts, s.expr)) ELSE s

G_program(toks, p, stmts) ==
    IF toks[p + 1].token_type = "EOF"
    THEN Derived(p, stmts)
    ELSE G_next(toks, G_statement(toks, p), stmts)

\* The run of parse is over.
ParseOver == parsePc \in {"returned", "panic"}

\* C3 as stated: for every token stream that is a sequence of statements of
\* the grammar followed by EOF, parse returns a Program holding each
\* statement's AST in source order, no token but the end sentinel skipped.
\* (The Literal(0.0) that parse makes of the end sentinel itself, after a
\* final assignment or in an empty text, is not counted against the claim.)
C3_ParsesEveryStatement ==
    (ParseOver /\ G_program(tokens, 0, << >>).ok) =>
        /\ parsePc = "returned"
        /\ \/ prog = G_program(tokens, 0, << >>).expr
           \/ prog = Append(G_program(tokens, 0, << >>).expr, Literal(Zero))

\* C4: a create_* call returns a previously deleted id whenever the free
\* list is non-empty, removing it from the list and leaving nodes.len()
\* unchanged, and returns the fresh id nodes.len() only when the free list is
\* empty; a successful deletion queues its id exactly once, so exactly one
\* later create_* call reuses it.
C4_CreateReusesFreedIds ==
    [][/\ ReturnedCreate =>
            IF dead # << >>
            THEN /\ InDead(G, last'.id)
                 /\ Len(dead') = Len(dead) - 1
                 /\ \A i \in 1..Len(dead') : dead'[i] # last'.id
                 /\ \A i \in 1..Len(dead') : InDead(G, dead'[i])
                 /\ Len(nodes') = Len(nodes)
                 /\ nodes'[last'.id + 1].kind # "Null"
            ELSE /\ last'.id = Len(nodes)
                 /\ Len(nodes') = Len(nodes) + 1
                 /\ dead' = dead
       /\ (Returned("delete_node") /\ last'.ret = "Ok") =>
            /\ ~InDead(G, last'.id)
            /\ dead' = Append(dead, last'.id)]_vars

\* C4 witness: a create_* call has just returned an id taken off the free
\* list while another deleted id is still queued.
C4_Witness ==
    /\ last.op \in CreateOps
    /\ last.reused
    /\ nodes[last.id + 1].kind # "Null"
    /\ dead # << >>

\* C5: delete_node(id) on an id that is queued dead returns an error value
\* instead of aborting and leaves nodes, the free list, outputs, store and
\* the designated output id unchanged; delete_node on a live id returns
\* success.
C5_DeleteDeadIsError ==
    [][Called("delete_node") =>
         IF InDead(G, last'.id)
         THEN /\ last'.ret = "Err"
              /\ ~panicked'
              /\ UNCHANGED <<nodes, dead, outputs, store, output_node>>
         ELSE last'.id < Len(nodes) => last'.ret = "Ok"]_vars

\* C5 witness: delete_node has just returned Err for an id on the free list
\* of a graph that still holds a live node.
C5_Witness ==
    /\ last.op = "delete_node"
    /\ last.ret = "Err"
    /\ InDead(G, last.id)
    /\ \E i \in 1..Len(nodes) : nodes[i].kind # "Null"

\* C6 as stated: when no Output node was ever created, sample() returns the
\* output of the most recently created node, also when that node was created
\* into a reused slot that is not the highest id.
C6_ReturnsLastCreated ==
    (last.op = "sample" /\ last.ret = "Ok" /\ lastOutputId = None
                        /\ lastCreated # None) =>
        last.val = outputs[lastCreated[1].id + 1]

\* C7: sample() returns 0.0 when the graph has no slots; otherwise this
\* call's output of the slot recorded by the most recent create_output call
\* if one was made (whatever was created afterwards), and this call's output
\* of the highest-id slot if none was made.
C7_SampleReturn ==
    (last.op = "sample" /\ last.ret = "Ok") =>
        last.val = IF nodes = << >> THEN 0
                   ELSE IF lastOutputId # None
                        THEN outputs[lastOutputId[1] + 1]
                        ELSE outputs[Len(nodes)]

\* C7 witness: sample() returned the output of an Output node that is not
\* the highest slot, and the highest slot holds another value.
C7_Witness ==
    /\ last.op = "sample" /\ last.ret = "Ok"
    /\ lastOutputId # None
    /\ lastOutputId[1] + 1 < Len(nodes)
    /\ last.val = outputs[lastOutputId[1] + 1]
    /\ last.val # outputs[Len(nodes)]

\* The step handles a NoticeWrite for a file whose load fails on a lex,
\* parse or build error.
FailedReload ==
    /\ mainPc = "events"
    /\ watch # << >>
    /\ watch' = Tail(watch)
    /\ Head(watch) = "NoticeWrite"
    /\ file # None
    /\ ~load(file[1]).ok

\* C8 as stated: when a reload's load attempt fails on a lex, parse or build
\* error, the driver keeps the graph it had and goes on with its loop,
\* producing samples from that graph; the failed load neither ends sample
\* production nor installs another graph.
C8_FailedReloadKeepsGraph ==
    [][FailedReload =>
         /\ mainPc' = "events"
         /\ UNCHANGED <<nodes, dead, output_node, outputs, store, gen>>]_vars

\* An expression that is, or holds at any depth, a call of a name that is
\* none of the thirteen functions.
RECURSIVE HasUnknownCall(_)
HasUnknownCall(x) ==
    \/ x.e = "Call" /\ ~IsFunction(x.s)
    \/ \E i \in 1..Len(x.xs) : HasUnknownCall(x.xs[i])

\* C9 as stated: for every program that holds a call of an unrecognised
\* name at any position (a statement, or any argument of another call),
\* load fails and returns no graph.
C9_UnknownCallFailsLoad ==
    loadPc = "returned" =>
        \A i \in 1..Len(prog) : ~HasUnknownCall(prog[i])

\* C10 as stated: for every token stream in which a call's argument list is
\* not closed by a matching ')' (the token after an argument is neither ','
\* nor ')'), parsing fails with a fatal error: parse returns no Program.
C10_UnclosedCallFails ==
    (ParseOver /\ G_program(tokens, 0, << >>).err = "unclosed") =>
        parsePc = "panic"

\* ------------------------------------------------------------------ C11
HasUnknown(toks) == \E i \in 1..Len(toks) : toks[i].token_type = "Unknown"

\* C11: when the token stream lex emitted holds an Unknown token, wherever
\* it stands, load does not return: it fails and no graph is built.
C11_UnknownTokenFailsLoad ==
    HasUnknown(tokens) => loadPc # "returned"

\* ------------------------------------------------------------------ C12
\* The graph n calls of sample() leave from g, and the values they return.
RECURSIVE SampledGraph(_, _)
SampledGraph(g, n) == IF n = 0 THEN g ELSE SampledGraph(sample_in(g).g, n - 1)

SampleAt(g, n) == sample_in(SampledGraph(g, n - 1)).val

\* C12: the samples main takes are a function of the text loaded alone:
\* after n samples the graph is the one n calls of sample() leave from a
\* fresh load of that text, and the n-th sample is the n-th value of that
\* sequence, whatever graph the load replaced.
C12_SamplesOfTextAlone ==
    (Alive /\ gen > 0 /\ loaded.taken < MaxTaken) =>
        LET g0 == load(loaded.text).g
        IN  /\ G = SampledGraph(g0, loaded.taken)
            /\ (fill_i > 0 /\ fill_i <= loaded.taken) =>
                   samples[fill_i] = [v |-> SampleAt(g0, loaded.taken),
                                      gen |-> gen]

\* A reload of LatchText has replaced a LatchText graph that had been
\* sampled (the batch 0, 1 of the first graph reached the device), and the
\* first sample of the new graph is 0 again.
C12_Witness ==
    /\ gen = 2
    /\ loaded = [text |-> LatchText, taken |-> 1]
    /\ device = <<[v |-> 0, gen |-> 1], [v |-> 1, gen |-> 1]>>
    /\ mainPc = "fill"
    /\ fill_i = 1
    /\ samples[1] = [v |-> 0, gen |-> 2]

\* ------------------------------------------------------------------ C13
\* C13: outputs.len() equals nodes.len() before and after every call, and
\* no call makes nodes or store shorter.
C13_BuffersInStep ==
    [][/\ Len(outputs) = Len(nodes)
       /\ Len(outputs') = Len(nodes')
       /\ Len(nodes') >= Len(nodes)
       /\ Len(store') >= Len(store)]_vars

\* Slots were created, one was freed, a store slot was added and the graph
\* was sampled.
C13_Witness ==
    /\ Len(nodes) >= 2
    /\ dead # << >>
    /\ Len(store) >= 1
    /\ last.op = "sample"
    /\ last.ret = "Ok"

\* ------------------------------------------------------------------ C14
\* C14: a delete_node(id) that returns Ok nulls slot id and appends id to
\* the free list, and changes nothing else of the graph; a create_* call
\* leaves the node at every id other than the one it returns as it was.
C14_IdsAreStable ==
    [][/\ (Returned("delete_node") /\ last'.ret = "Ok") =>
              /\ nodes' = [nodes EXCEPT ![last'.id + 1] = Null]
              /\ dead' = Append(dead, last'.id)
              /\ UNCHANGED <<outputs, store, output_node>>
       /\ ReturnedCreate =>
              \A i \in 1..Len(nodes) :
                  i # last'.id + 1 => nodes'[i] = nodes[i]]_vars

\* A slot was deleted while another slot held a node.
C14_Witness ==
    /\ last.op = "delete_node"
    /\ last.ret = "Ok"
    /\ \E i \in 1..Len(nodes) : i # last.id + 1 /\ nodes[i] # Null
    /\ nodes[last.id + 1] = Null

\* ------------------------------------------------------------------ C15
\* A sample() call has returned in this step.
SampleReturned == Returned("sample")

IsWriter(n, s) == n.kind = "Writer" /\ n.sid = s

\* The slots below m that hold a Writer to store slot s.
WritersBelow(s, m) == {k \in 0..(m - 1) : IsWriter(nodes[k + 1], s)}

Greatest(ks) == CHOOSE k \in ks : \A j \in ks : j <= k

\* The positions at which slot m resolves a StoreValue(s) input.
StoreReads(m, s) ==
    {i \in 1..Len(NodeInputs(nodes[m + 1])) :
        NodeInputs(nodes[m + 1])[i] = StoreVal(s)}

\* What holds of every Writer whatever else the graph holds: its output is
\* the resolved value of v, the store slot ends the call with the value of
\* the last Writer to it, and a slot no Writer targets keeps its value.
WriterWrites ==
    /\ \A k \in 0..(Len(nodes) - 1) :
           nodes[k + 1].kind = "Writer" => outputs'[k + 1] = reads'[k + 1][1]
    /\ \A s \in 0..(Len(store) - 1) :
           store'[s + 1] = IF WritersBelow(s, Len(nodes)) = {}
                           THEN store[s + 1]
                           ELSE reads'[Greatest(WritersBelow(s, Len(nodes))) + 1][1]

\* C15 as stated: for a Writer to s at slot k, a StoreValue(s) read by a
\* slot above k sees the value k wrote and one read by a slot not above k
\* sees the value the previous call left.
C15_ReadsAroundEachWriter ==
    [][SampleReturned =>
          /\ WriterWrites
          /\ \A k \in 0..(Len(nodes) - 1), m \in 0..(Len(nodes) - 1) :
                 nodes[k + 1].kind = "Writer" =>
                     \A i \in StoreReads(m, nodes[k + 1].sid) :
                         reads'[m + 1][i] = IF m > k
                                            THEN reads'[k + 1][1]
                                            ELSE store[nodes[k + 1].sid + 1]]_vars

\* C15, amended: a StoreValue(s) read by slot m sees the value written in
\* this call by the Writer to s nearest below m, and the value the previous
\* call left (0.0 before any write) when no Writer to s stands below m.
C15_ReadsNearestWriterBelow ==
    [][/\ SampleReturned =>
            /\ WriterWrites
            /\ \A m \in 0..(Len(nodes) - 1), s \in 0..(Len(store) - 1) :
                   \A i \in StoreReads(m, s) :
                       reads'[m + 1][i] =
                           IF WritersBelow(s, m) = {}
                           THEN store[s + 1]
                           ELSE reads'[Greatest(WritersBelow(s, m)) + 1][1]
       /\ Returned("create_value_store") => store'[last'.id + 1] = 0]_vars

\* A sample() returned on a graph with a Writer to slot 0 at slot 1, a
\* reader of slot 0 below it, which saw the 0 the slot was created with,
\* and a reader above it, which saw the 1 the Writer wrote.
C15_Witness ==
    /\ last.op = "sample"
    /\ last.ret = "Ok"
    /\ Len(nodes) = 3
    /\ Len(store) >= 1
    /\ IsWriter(nodes[2], 0)
    /\ nodes[1] = Add(StoreVal(0), Value(1))
    /\ nodes[3] = Add(StoreVal(0), Value(1))
    /\ reads[1][1] = 0
    /\ reads[3][1] = 1
    /\ store[1] = 1

\* ------------------------------------------------------------------ C16
\* The slots holding a node of this kind when the last sample() returned.
SampledSlots(kind) ==
    IF last.op = "sample" /\ last.ret = "Ok"
    THEN {k \in 0..(Len(nodes) - 1) : nodes[k + 1].kind = kind}
    ELSE {}

\* C16: after advance, a Square node's output is +amp when its phase is
\* above half the period and -amp otherwise.
C16_SquareSwitchesAtHalfPeriod ==
    \A k \in SampledSlots("Square") :
        outputs[k + 1] =
            (IF nodes[k + 1].phase * 2 > sample_rate THEN 1 ELSE -1)
                * reads[k + 1][2]

\* ------------------------------------------------------------------ C17
\* C17: after advance, a Saw node's output is (phase / period * 2 - 1) * amp,
\* and with a frequency that is not negative it lies within -|amp| .. |amp|.
C17_SawSpansOnePeriod ==
    \A k \in SampledSlots("Saw") :
        /\ outputs[k + 1] =
               Ratio((nodes[k + 1].phase * 2 - sample_rate) * reads[k + 1][2],
                     sample_rate)
        /\ reads[k + 1][1] >= 0 =>
               Abs(outputs[k + 1].n) <= Abs(reads[k + 1][2]) * outputs[k + 1].d

\* ------------------------------------------------------------------ C18
\* A batch whose samples are all of one graph.
OfOneGraph(b) == \A i, j \in 1..Len(b) : b[i].gen = b[j].gen

Filling == mainPc \in {"init_fill", "fill"}

\* C18: no reload falls between two sample() calls of a batch: the samples
\* of the batch being filled are of the graph main holds and follow one
\* another in that graph's sequence, and every buffer sent to the callback is
\* a full batch of one graph.
C18_BatchOfOneGraph ==
    /\ \A n \in 1..Len(toCallback) :
           Len(toCallback[n]) = BatchLen /\ OfOneGraph(toCallback[n])
    /\ Filling => \A i \in 1..fill_i : samples[i].gen = gen
    /\ (Filling /\ loaded.taken < MaxTaken) =>
           /\ fill_i <= loaded.taken
           /\ \A i \in 1..fill_i :
                  samples[i].v = SampleAt(load(loaded.text).g,
                                          loaded.taken - fill_i + i)

\* The graph was replaced between two batches: the device plays a batch of
\* the first graph while a batch of the second is queued.
C18_Witness ==
    /\ device # << >>
    /\ device[1].gen = 1
    /\ toCallback # << >>
    /\ toCallback[1][1].gen = 2
    /\ loaded.text = LatchText

\* ------------------------------------------------------------------ C19
\* recv() on an empty channel blocks.
MainBlocked     == mainPc = "recv" /\ toMain = << >>
CallbackBlocked == cbPc = "recv" /\ toCallback = << >>

\* The graph a batch is from.
GenOf(b) == b[1].gen

\* C19: at most one buffer is queued towards the callback and at most one
\* back towards main, and never both; the buffer at the device is no
\* younger than the one queued, which is no younger than the batch main
\* holds; and main and the callback are never both blocked in recv.
C19_BuffersAlternate ==
    /\ Len(toCallback) + Len(toMain) <= 1
    /\ ~(MainBlocked /\ CallbackBlocked)
    /\ (toCallback # << >> /\ device # << >>) =>
           GenOf(device) <= GenOf(toCallback[1])
    /\ toCallback # << >> => GenOf(toCallback[1]) <= gen
    /\ toMain # << >> => toMain[1] = device

\* A buffer has gone round: the device holds the first batch, the second
\* is queued, main waits in recv and the callback has been invoked.
C19_Witness ==
    /\ mainPc = "recv"
    /\ cbPc = "recv"
    /\ device # << >>
    /\ toCallback # << >>
    /\ toCallback[1] # device

\* ------------------------------------------------------------------ C20
\* C20: in the graph a successful load returns, a node at slot k reads
\* NodeOutput(j) only for j < k, every StoreValue(s) it reads and every
\* store id s of a Writer has s < store.len(), and so no input of the graph
\* indexes outputs or store out of range.
C20_LoadedGraphReadsBackwards ==
    loadPc = "returned" =>
        \A k \in 0..(Len(nodes) - 1) :
            /\ nodes[k + 1].kind = "Writer" => nodes[k + 1].sid < Len(store)
            /\ \A i \in 1..Len(NodeInputs(nodes[k + 1])) :
                   LET in == NodeInputs(nodes[k + 1])[i]
                   IN  /\ in.t = "Node" => in.v < k
                       /\ in.t = "Store" => in.v < Len(store)
                       /\ InputInBounds(in, outputs, store)

\* load returned the graph of `s = CreateStore()  Writer(s, Add(s, 1))`:
\* the Add reads the store slot and the Writer above it reads the Add.
C20_Witness ==
    /\ loadPc = "returned"
    /\ Len(store) = 1
    /\ Len(nodes) = 2
    /\ nodes[1] = Add(StoreVal(0), Value(1))
    /\ nodes[2] = Writer(0, NodeOut(0))

\* ------------------------------------------------------------------ C21
\* C21: the free list holds no id twice, every id in it is below
\* nodes.len(), and a slot holds Null exactly when its id is in the free
\* list.
C21_FreeListMatchesNullSlots ==
    /\ \A i, j \in 1..Len(dead) : dead[i] = dead[j] => i = j
    /\ \A i \in 1..Len(dead) : dead[i] < Len(nodes)
    /\ \A id \in 0..(Len(nodes) - 1) : nodes[id + 1] = Null <=> InDead(G, id)

\* A freed slot was reused by a create and another slot was freed after
\* it: one slot is Null and queued, another holds a node.
C21_Witness ==
    /\ ~panicked
    /\ lastCreated # None
    /\ lastCreated[1].reused
    /\ dead # << >>
    /\ nodes[dead[1] + 1] = Null
    /\ \E id \in 0..(Len(nodes) - 1) : nodes[id + 1] # Null

====
